---- MODULE Spec2Model ----
(***************************************************************************)
(* Job Satisfaction Prediction API (src/main.py).                          *)
(*                                                                         *)
(* The module-level code loads two artifacts (model, preprocessor) and     *)
(* then the application serves GET / and POST /predict_job_satisfaction.   *)
(* Both endpoints are `async def` coroutines without any await, so the     *)
(* event loop runs one handler at a time from its first statement to its   *)
(* response; `running` is the request whose handler owns the loop.         *)
(*                                                                         *)
(* A DataFrame cell is a record [dtype, s, n]: dtype is the pandas dtype   *)
(* of its column, s the text of an object cell (or "nan" for a missing     *)
(* float), n the number of a numeric cell.  Floats are modelled by         *)
(* integers: the handler only looks at their sign and at NaN.  The         *)
(* non-ASCII detail strings of the source are written in English.          *)
(***************************************************************************)
EXTENDS Integers, Sequences, FiniteSets, TLC

VARIABLES
    process,         \* position of the module-level code (main.py 19-25)
    model,           \* the loaded model (20)
    preprocessor,    \* the loaded preprocessor (21)
    running,         \* request whose coroutine the event loop runs, 0 if none (34)
    root,            \* last response of GET / (28-30)
    pc,              \* position of each request's handler (58-159)
    params,          \* the 21 typed query parameters of each request (35-56)
    input_data,      \* the DataFrame of each request (86-132)
    processed_data,  \* what preprocessor.transform returned (139)
    prediction,      \* model.predict(...).tolist() (149)
    caught,          \* the except clause that ended the handler, and its exception
    response,        \* the response of each request (154-159)
    transformCalls,  \* calls of preprocessor.transform per request (139)
    predictCalls     \* calls of model.predict per request (149)

vars == <<process, model, preprocessor, running, root, pc, params,
          input_data, processed_data, prediction, caught, response,
          transformCalls, predictCalls>>

\* Number of POST requests of a run of Spec.
NumRequests == 2

Requests == 1..NumRequests

---------------------------------------------------------------------------
\* DataFrame cells.

StrCell(x) == [dtype |-> "object", s |-> x, n |-> 0]

IntCell(i) == [dtype |-> "int64", s |-> "", n |-> i]

FloatCell(i) == [dtype |-> "float64", s |-> "", n |-> i]

NaN == [dtype |-> "float64", s |-> "nan", n |-> 0]

Digit(d) ==
    CASE d = 0 -> "0" [] d = 1 -> "1" [] d = 2 -> "2" [] d = 3 -> "3"
      [] d = 4 -> "4" [] d = 5 -> "5" [] d = 6 -> "6" [] d = 7 -> "7"
      [] d = 8 -> "8" [] d = 9 -> "9"

RECURSIVE DecimalText(_)
\* str(i) of a Python int.
DecimalText(i) ==
    IF i < 0 THEN "-" \o DecimalText(-i)
    ELSE IF i < 10 THEN Digit(i)
    ELSE DecimalText(i \div 10) \o Digit(i % 10)

\* The texts pd.to_numeric parses as numbers, among the texts of the model.
NumericTexts == {DecimalText(i) : i \in 0..9}

ParseNumber(t) == CHOOSE i \in 0..9 : DecimalText(i) = t

\* pd.to_numeric(column, errors='coerce') on a one-row column.
to_numeric(cell) ==
    IF cell.dtype = "object"
    THEN IF cell.s \in NumericTexts THEN IntCell(ParseNumber(cell.s)) ELSE NaN
    ELSE cell

isnull(cell) == cell.dtype = "float64" /\ cell.s = "nan"

\* fillna that leaves the missing value in place.
fillna_Kept(cell) == cell

\* DataFrame.fillna(0) on one cell.
fillna(cell) == IF isnull(cell) THEN FloatCell(0) ELSE cell

\* Series.astype(str) on a one-row column.
astype_str(cell) ==
    CASE cell.dtype = "object" -> cell
      [] cell.dtype = "int64" -> StrCell(DecimalText(cell.n))
      [] cell.dtype = "float64" ->
            IF isnull(cell) THEN StrCell("nan") ELSE StrCell(DecimalText(cell.n) \o ".0")

---------------------------------------------------------------------------
\* The request schema and the column lists of the handler.

Columns ==
    {"Gender", "MaritalStatus", "Dept", "EmpType", "CommuteMode", "EduLevel",
     "JobLevel", "Stress", "WorkEnv", "Age", "TeamSize", "haveOT", "Workload",
     "TrainingHoursPerYear", "WLB", "SleepHours", "Experience", "NumReports",
     "CommuteDistance", "NumCompanies", "PhysicalActivityHours"}

valid_job_levels == {"Mid", "Intern/Fresher", "Junior", "Senior", "Lead"}

numeric_columns ==
    {"JobLevel", "Age", "TeamSize", "TrainingHoursPerYear", "SleepHours",
     "Experience", "NumReports", "CommuteDistance", "NumCompanies",
     "PhysicalActivityHours"}

\* The categorical list with Workload in it.
categorical_columns_WithWorkload ==
    {"Gender", "MaritalStatus", "Dept", "EmpType", "CommuteMode", "EduLevel",
     "WorkEnv", "haveOT", "WLB", "Workload"}

categorical_columns ==
    {"Gender", "MaritalStatus", "Dept", "EmpType", "CommuteMode", "EduLevel",
     "WorkEnv", "haveOT", "WLB"}

---------------------------------------------------------------------------
\* Exceptions and responses.

HTTPException(status_code, detail) ==
    [type |-> "HTTPException", status_code |-> status_code, detail |-> detail]

\* An exception that is not an HTTPException, with its message.
Error(type, message) == [type |-> type, status_code |-> 0, detail |-> message]

NoException == [type |-> "", status_code |-> 0, detail |-> ""]

JobLevelDetail == "Invalid JobLevel. Must be one of: Mid, Intern/Fresher, Junior, Senior, Lead."

WorkEnvDetail == "WorkEnv must be an integer between 1 and 5."

WorkloadDetail == "Workload must be an integer between 1 and 5."

WLBDetail == "WLB must be an integer between 1 and 5."

TrainingDetail == "TrainingHoursPerYear must be a non-negative number."

SleepDetail == "SleepHours must be a non-negative number."

PhysicalDetail == "PhysicalActivityHours must be a non-negative number."

TransformDetail == "data transformation error"

PredictDetail == "prediction error"

InternalDetail == "internal server error"

\* x <= 0 in place of x < 0.
Negative_OrZero(cell) == cell.s # "nan" /\ cell.n <= 0

\* x < 0 for a Python float: false for NaN.
Negative(cell) == ~isnull(cell) /\ cell.n < 0

\* 1 <= x < 5 in place of 1 <= x <= 5.
InRange_Exclusive(cell) == 1 <= cell.n /\ cell.n < 5

InRange(cell) == 1 <= cell.n /\ cell.n <= 5

\* The checks with WorkEnv tested before JobLevel.
validation_detail_WorkEnvFirst(p) ==
    IF ~(1 <= p.WorkEnv.n /\ p.WorkEnv.n <= 5) THEN WorkEnvDetail
    ELSE IF p.JobLevel.s \notin valid_job_levels THEN JobLevelDetail
    ELSE IF ~(1 <= p.Workload.n /\ p.Workload.n <= 5) THEN WorkloadDetail
    ELSE IF ~(1 <= p.WLB.n /\ p.WLB.n <= 5) THEN WLBDetail
    ELSE IF p.TrainingHoursPerYear.s # "nan" /\ p.TrainingHoursPerYear.n < 0
    THEN TrainingDetail
    ELSE IF p.SleepHours.s # "nan" /\ p.SleepHours.n < 0 THEN SleepDetail
    ELSE IF p.PhysicalActivityHours.s # "nan" /\ p.PhysicalActivityHours.n < 0
    THEN PhysicalDetail
    ELSE ""

\* The checks of the handler, in its order: the detail of the first check
\* that raises, or "" when none does.
validation_detail(p) ==
    IF p.JobLevel.s \notin valid_job_levels THEN JobLevelDetail
    ELSE IF ~InRange(p.WorkEnv) THEN WorkEnvDetail
    ELSE IF ~InRange(p.Workload) THEN WorkloadDetail
    ELSE IF ~InRange(p.WLB) THEN WLBDetail
    ELSE IF Negative(p.TrainingHoursPerYear) THEN TrainingDetail
    ELSE IF Negative(p.SleepHours) THEN SleepDetail
    ELSE IF Negative(p.PhysicalActivityHours) THEN PhysicalDetail
    ELSE ""

\* An outer handler without the except HTTPException clause.
OuterHandler_CatchAll(exc) == HTTPException(500, InternalDetail)

\* except HTTPException: raise / except Exception: raise HTTPException(500).
OuterHandler(exc) ==
    IF exc.type = "HTTPException" THEN exc ELSE HTTPException(500, InternalDetail)

\* The response the framework sends for an HTTPException leaving the handler.
ErrorResponse(exc) == [status_code |-> exc.status_code, body |-> [detail |-> exc.detail]]

OkResponse(value) == [status_code |-> 200, body |-> [predicted_job_satisfaction |-> value]]

NoResponse == [status_code |-> 0, body |-> [pending |-> TRUE]]

\* The DataFrame handed to the preprocessor, from the validated parameters.
normalize(p) ==
    LET coerced == [c \in Columns |->
                       IF c \in numeric_columns THEN to_numeric(p[c]) ELSE p[c]]
        filled  == IF \E c \in Columns : isnull(coerced[c])
                   THEN [c \in Columns |-> fillna(coerced[c])]
                   ELSE coerced
    IN  [c \in Columns |->
            IF c \in categorical_columns THEN astype_str(filled[c]) ELSE filled[c]]

---------------------------------------------------------------------------
\* The two artifacts.  They are pickles outside the source: a fitted
\* preprocessor with transform(record) -> features and a fitted model with
\* predict(features) -> labels, both deterministic; transform may reject a
\* record (an unseen category) and predict may fail.

NotLoaded == [loaded |-> FALSE, kind |-> "", categories |-> {}]

\* Preprocessors fitted on the same categories, one rejecting unseen ones.
PreprocessorArtifacts ==
    {[loaded |-> TRUE, kind |-> k, categories |-> {"Male", "Female"}] :
        k \in {"error", "ignore"}}

\* Models: one that predicts, one whose predict raises, one whose predict
\* returns no row.
ModelArtifacts ==
    {[loaded |-> TRUE, kind |-> k, categories |-> {}] :
        k \in {"predicts", "raises", "empty"}}

Returned(value) == [raised |-> FALSE, exc |-> NoException, value |-> value]

Raised(exc, value) == [raised |-> TRUE, exc |-> exc, value |-> value]

NoRow == [c \in Columns |-> StrCell("")]

\* preprocessor.transform(input_data)
transform(pre, df) ==
    IF df.Gender.s \in pre.categories
    THEN Returned(df)
    ELSE IF pre.kind = "error"
    THEN Raised(Error("ValueError", "Found unknown categories " \o df.Gender.s), NoRow)
    ELSE Returned([df EXCEPT !.Gender = StrCell("")])

\* model.predict(processed_data).tolist()
predict(mdl, X) ==
    CASE mdl.kind = "predicts" ->
            Returned(<<1 + ((X.Workload.n + X.Stress.n + X.JobLevel.n) % 5)>>)
      [] mdl.kind = "empty" -> Returned(<< >>)
      [] OTHER -> Raised(Error("NotFittedError", "estimator is not fitted"), << >>)

---------------------------------------------------------------------------
\* Requests.

Params(jl, we, wl, wlb, th, sh, pa, g) ==
    [Gender |-> StrCell(g), MaritalStatus |-> StrCell("Single"),
     Dept |-> StrCell("HR"), EmpType |-> StrCell("Full-Time"),
     CommuteMode |-> StrCell("Car"), EduLevel |-> StrCell("Bachelor"),
     JobLevel |-> StrCell(jl), Stress |-> IntCell(1), WorkEnv |-> IntCell(we),
     Age |-> IntCell(30), TeamSize |-> IntCell(10), haveOT |-> StrCell("Yes"),
     Workload |-> IntCell(wl), TrainingHoursPerYear |-> th, WLB |-> IntCell(wlb),
     SleepHours |-> sh, Experience |-> IntCell(5), NumReports |-> IntCell(1),
     CommuteDistance |-> IntCell(15), NumCompanies |-> IntCell(3),
     PhysicalActivityHours |-> pa]

JobLevelValues == valid_job_levels \cup {"Manager"}

RatingValues == {0, 1, 5, 6}

HoursValues == {FloatCell(-1), FloatCell(0), FloatCell(12), NaN}

GenderValues == {"Male", "Other"}

\* The validated fields and Gender of the scenario of the specification, in
\* the order of the parameters of Params: all fields valid.
Scenario == <<"Senior", 3, 4, 2, FloatCell(12), FloatCell(7), FloatCell(2), "Male">>

\* Number of fields in which a request of SpecRequest differs from Scenario.
MaxDeviations == 3

Deviations(t) == Cardinality({i \in 1..Len(Scenario) : t[i] # Scenario[i]})

\* The requests of SpecRequest: the combinations of the validated fields
\* within MaxDeviations fields of the scenario.
RequestDomain ==
    {Params(t[1], t[2], t[3], t[4], t[5], t[6], t[7], t[8]) :
        t \in {u \in JobLevelValues \X (RatingValues \cup {3})
                       \X (RatingValues \cup {4}) \X (RatingValues \cup {2})
                       \X HoursValues \X (HoursValues \cup {FloatCell(7)})
                       \X (HoursValues \cup {FloatCell(2)}) \X GenderValues :
                  Deviations(u) <= MaxDeviations}}

\* The requests of Spec: the scenario with each JobLevel, and the scenario
\* with a Gender the preprocessor was not fitted on.
ClientRequests ==
    {Params(jl, 3, 4, 2, FloatCell(12), FloatCell(7), FloatCell(2), "Male") :
        jl \in JobLevelValues}
    \cup {Params("Senior", 3, 4, 2, FloatCell(12), FloatCell(7), FloatCell(2), "Other")}

---------------------------------------------------------------------------
\* State.

NoCatch == [handler |-> "", exc |-> NoException]

Init ==
    /\ process = "load_model"
    /\ model = NotLoaded
    /\ preprocessor = NotLoaded
    /\ running = 0
    /\ root = NoResponse
    /\ pc = [r \in Requests |-> "idle"]
    /\ params = [r \in Requests |-> NoRow]
    /\ input_data = [r \in Requests |-> NoRow]
    /\ processed_data = [r \in Requests |-> NoRow]
    /\ prediction = [r \in Requests |-> << >>]
    /\ caught = [r \in Requests |-> NoCatch]
    /\ response = [r \in Requests |-> NoResponse]
    /\ transformCalls = [r \in Requests |-> 0]
    /\ predictCalls = [r \in Requests |-> 0]

requestVars == <<pc, params, input_data, processed_data, prediction, caught,
                 response, transformCalls, predictCalls>>

\* model = load(model_path), or the except clause that ends the import.
LoadModel ==
    /\ process = "load_model"
    /\ \/ \E m \in ModelArtifacts : model' = m /\ process' = "load_preprocessor"
       \/ model' = model /\ process' = "failed"
    /\ UNCHANGED <<preprocessor, running, root, requestVars>>

\* A load whose failure is logged and not raised.
LoadPreprocessor_Swallowed ==
    /\ process = "load_preprocessor"
    /\ \/ \E p \in PreprocessorArtifacts : preprocessor' = p
       \/ preprocessor' = preprocessor
    /\ process' = "serving"
    /\ UNCHANGED <<model, running, root, requestVars>>

\* preprocessor = load(preprocessor_path), or the except clause.
LoadPreprocessor ==
    /\ process = "load_preprocessor"
    /\ \/ \E p \in PreprocessorArtifacts : preprocessor' = p /\ process' = "serving"
       \/ preprocessor' = preprocessor /\ process' = "failed"
    /\ UNCHANGED <<model, running, root, requestVars>>

\* GET /
read_root ==
    /\ process = "serving"
    /\ running = 0
    /\ root' = [status_code |-> 200,
                body |-> [message |-> "Welcome to the Job Satisfaction Prediction API!"]]
    /\ UNCHANGED <<process, model, preprocessor, running, requestVars>>

\* A client's POST /predict_job_satisfaction reaches the serving process.
Receive(r, requests) ==
    /\ process = "serving"
    /\ pc[r] = "idle"
    /\ pc' = [pc EXCEPT ![r] = "queued"]
    /\ \E q \in requests : params' = [params EXCEPT ![r] = q]
    /\ UNCHANGED <<process, model, preprocessor, running, root, input_data,
                   processed_data, prediction, caught, response,
                   transformCalls, predictCalls>>

\* The event loop starts the handler coroutine of r.
Dispatch(r) ==
    /\ pc[r] = "queued"
    /\ running = 0
    /\ running' = r
    /\ pc' = [pc EXCEPT ![r] = "validating"]
    /\ UNCHANGED <<process, model, preprocessor, root, params, input_data,
                   processed_data, prediction, caught, response,
                   transformCalls, predictCalls>>

\* An exception leaves the inner try blocks of the handler of r: the outer
\* handlers map it and the handler ends.
Raise(r, handler, exc, mapped) ==
    /\ caught' = [caught EXCEPT ![r] = [handler |-> handler, exc |-> exc]]
    /\ response' = [response EXCEPT ![r] = ErrorResponse(OuterHandler(mapped))]
    /\ pc' = [pc EXCEPT ![r] = "done"]
    /\ running' = 0

Validate(r) ==
    /\ pc[r] = "validating"
    /\ running = r
    /\ LET detail == validation_detail(params[r])
       IN  IF detail # ""
           THEN Raise(r, "validate", HTTPException(400, detail),
                      HTTPException(400, detail))
           ELSE /\ pc' = [pc EXCEPT ![r] = "normalizing"]
                /\ UNCHANGED <<caught, response, running>>
    /\ UNCHANGED <<process, model, preprocessor, root, params, input_data,
                   processed_data, prediction, transformCalls, predictCalls>>

\* A handler that goes from the record straight to model.predict.
Normalize_SkipsTransform(r) ==
    /\ pc[r] = "normalizing"
    /\ running = r
    /\ input_data' = [input_data EXCEPT ![r] = normalize(params[r])]
    /\ pc' = [pc EXCEPT ![r] = "predicting"]
    /\ UNCHANGED <<process, model, preprocessor, running, root, params,
                   processed_data, prediction, caught, response,
                   transformCalls, predictCalls>>

Normalize(r) ==
    /\ pc[r] = "normalizing"
    /\ running = r
    /\ input_data' = [input_data EXCEPT ![r] = normalize(params[r])]
    /\ pc' = [pc EXCEPT ![r] = "transforming"]
    /\ UNCHANGED <<process, model, preprocessor, running, root, params,
                   processed_data, prediction, caught, response,
                   transformCalls, predictCalls>>

Transform(r) ==
    /\ pc[r] = "transforming"
    /\ running = r
    /\ transformCalls' = [transformCalls EXCEPT ![r] = @ + 1]
    /\ LET res == transform(preprocessor, input_data[r])
       IN  IF res.raised
           THEN /\ Raise(r, "transform", res.exc, HTTPException(500, TransformDetail))
                /\ UNCHANGED processed_data
           ELSE /\ processed_data' = [processed_data EXCEPT ![r] = res.value]
                /\ pc' = [pc EXCEPT ![r] = "predicting"]
                /\ UNCHANGED <<caught, response, running>>
    /\ UNCHANGED <<process, model, preprocessor, root, params, input_data,
                   prediction, predictCalls>>

\* A predict call that leaves the shared model changed.
Predict_WritesModel(r) ==
    /\ pc[r] = "predicting"
    /\ running = r
    /\ predictCalls' = [predictCalls EXCEPT ![r] = @ + 1]
    /\ model' = [model EXCEPT !.kind = "empty"]
    /\ LET res == predict(model, processed_data[r])
       IN  IF res.raised
           THEN /\ Raise(r, "predict", res.exc, HTTPException(500, PredictDetail))
                /\ UNCHANGED prediction
           ELSE /\ prediction' = [prediction EXCEPT ![r] = res.value]
                /\ pc' = [pc EXCEPT ![r] = "returning"]
                /\ UNCHANGED <<caught, response, running>>
    /\ UNCHANGED <<process, preprocessor, root, params, input_data,
                   processed_data, transformCalls>>

Predict(r) ==
    /\ pc[r] = "predicting"
    /\ running = r
    /\ predictCalls' = [predictCalls EXCEPT ![r] = @ + 1]
    /\ LET res == predict(model, processed_data[r])
       IN  IF res.raised
           THEN /\ Raise(r, "predict", res.exc, HTTPException(500, PredictDetail))
                /\ UNCHANGED prediction
           ELSE /\ prediction' = [prediction EXCEPT ![r] = res.value]
                /\ pc' = [pc EXCEPT ![r] = "returning"]
                /\ UNCHANGED <<caught, response, running>>
    /\ UNCHANGED <<process, model, preprocessor, root, params, input_data,
                   processed_data, transformCalls>>

\* return {"predicted_job_satisfaction": prediction[0]}
Return(r) ==
    /\ pc[r] = "returning"
    /\ running = r
    /\ IF prediction[r] = << >>
       THEN Raise(r, "outer", Error("IndexError", "list index out of range"),
                  Error("IndexError", "list index out of range"))
       ELSE /\ response' = [response EXCEPT ![r] = OkResponse(prediction[r][1])]
            /\ pc' = [pc EXCEPT ![r] = "done"]
            /\ running' = 0
            /\ UNCHANGED caught
    /\ UNCHANGED <<process, model, preprocessor, root, params, input_data,
                   processed_data, prediction, transformCalls, predictCalls>>

\* The server with NumRequests clients.
Next ==
    \/ LoadModel
    \/ LoadPreprocessor
    \/ read_root
    \/ \E r \in Requests : Receive(r, ClientRequests)
    \/ \E r \in Requests : Dispatch(r)
    \/ \E r \in Requests : Validate(r)
    \/ \E r \in Requests : Normalize(r)
    \/ \E r \in Requests : Transform(r)
    \/ \E r \in Requests : Predict(r)
    \/ \E r \in Requests : Return(r)

Spec == Init /\ [][Next]_vars

\* The server with one client, over every request of RequestDomain.
NextRequest ==
    \/ LoadModel
    \/ LoadPreprocessor
    \/ read_root
    \/ Receive(1, RequestDomain)
    \/ Dispatch(1)
    \/ Validate(1)
    \/ Normalize(1)
    \/ Transform(1)
    \/ Predict(1)
    \/ Return(1)

SpecRequest == Init /\ [][NextRequest]_vars

---------------------------------------------------------------------------
\* Vocabulary of the properties.

Done(r) == pc[r] = "done"

\* The handler of r has called preprocessor.transform(input_data).
Handed(r) == transformCalls[r] > 0

RatingFields == {"WorkEnv", "Workload", "WLB"}

HoursFields == {"TrainingHoursPerYear", "SleepHours", "PhysicalActivityHours"}

\* Field f of p breaks its constraint of the validator.
Violates(p, f) ==
    CASE f = "JobLevel" ->
            p[f].s \notin {"Mid", "Intern/Fresher", "Junior", "Senior", "Lead"}
      [] f \in RatingFields -> p[f].n \notin 1..5
      [] f \in HoursFields -> p[f].s # "nan" /\ p[f].n < 0
      [] OTHER -> FALSE

\* Every field of p satisfies its constraint (a NaN is not >= 0).
Satisfies(p) ==
    /\ \A f \in Columns : ~Violates(p, f)
    /\ \A f \in HoursFields : p[f].s # "nan"

\* The field a 400 detail names.
NamedField(detail) ==
    CASE detail = JobLevelDetail -> "JobLevel"
      [] detail = WorkEnvDetail -> "WorkEnv"
      [] detail = WorkloadDetail -> "Workload"
      [] detail = WLBDetail -> "WLB"
      [] detail = TrainingDetail -> "TrainingHoursPerYear"
      [] detail = SleepDetail -> "SleepHours"
      [] detail = PhysicalDetail -> "PhysicalActivityHours"
      [] OTHER -> ""

Is400Naming(resp, f) ==
    /\ resp.status_code = 400
    /\ DOMAIN resp.body = {"detail"}
    /\ NamedField(resp.body.detail) = f

Is200(resp) ==
    resp.status_code = 200 /\ DOMAIN resp.body = {"predicted_job_satisfaction"}

Is500(resp, detail) ==
    resp.status_code = 500 /\ resp.body = [detail |-> detail]

---------------------------------------------------------------------------
\* C1, as stated: every answered request whose fields all satisfy the
\* constraints of the validator got 200 with the single field
\* predicted_job_satisfaction.
C1_ValidGets200 ==
    \A r \in Requests : Done(r) /\ Satisfies(params[r]) => Is200(response[r])

\* C1, amended: every answered request whose fields all satisfy the
\* constraints is never answered 400; it got 200 with the single field
\* predicted_job_satisfaction holding the first predicted value when transform
\* and predict returned and the prediction has a row, and otherwise the 500 of
\* the fault that ended it.
C1_ValidGets200UnlessFault ==
    \A r \in Requests :
        Done(r) /\ Satisfies(params[r]) =>
            CASE caught[r].handler = "" ->
                    /\ Is200(response[r])
                    /\ prediction[r] # << >>
                    /\ response[r].body.predicted_job_satisfaction = prediction[r][1]
              [] caught[r].handler = "transform" -> Is500(response[r], TransformDetail)
              [] caught[r].handler = "predict" -> Is500(response[r], PredictDetail)
              [] caught[r].handler = "outer" -> Is500(response[r], InternalDetail)
              [] OTHER -> FALSE

C1_Witness ==
    \E r \in Requests : Done(r) /\ Satisfies(params[r]) /\ Is200(response[r])

\* C2: every answered request whose JobLevel is not one of the five allowed
\* values got 400 with a detail naming JobLevel, whatever its other fields.
C2_BadJobLevelGets400 ==
    \A r \in Requests :
        Done(r) /\ Violates(params[r], "JobLevel") =>
            Is400Naming(response[r], "JobLevel")

C2_Witness ==
    \E r \in Requests :
        /\ Done(r)
        /\ Violates(params[r], "JobLevel")
        /\ Violates(params[r], "WorkEnv")
        /\ Violates(params[r], "SleepHours")
        /\ Is400Naming(response[r], "JobLevel")

\* C3, as stated: for each rating field outside [1,5] and each negative hours
\* field of an answered request, the answer is 400 with a detail naming that
\* field, also when other fields are invalid.
C3_EachInvalidFieldNamed ==
    \A r \in Requests : \A f \in RatingFields \cup HoursFields :
        Done(r) /\ Violates(params[r], f) => Is400Naming(response[r], f)

\* The order in which the handler checks the fields.
CheckOrder ==
    <<"JobLevel", "WorkEnv", "Workload", "WLB", "TrainingHoursPerYear",
      "SleepHours", "PhysicalActivityHours">>

FirstInvalid(p) ==
    LET bad == {i \in 1..Len(CheckOrder) : Violates(p, CheckOrder[i])}
    IN  CheckOrder[CHOOSE i \in bad : \A j \in bad : i <= j]

\* C3, amended: an answered request with a rating field outside [1,5] or a
\* negative hours field got 400 with a detail naming one field, the first
\* invalid one in the order JobLevel, WorkEnv, Workload, WLB,
\* TrainingHoursPerYear, SleepHours, PhysicalActivityHours; an invalid field
\* is named exactly when no field before it in that order is invalid.
C3_FirstInvalidFieldNamed ==
    \A r \in Requests :
        Done(r) /\ (\E f \in RatingFields \cup HoursFields : Violates(params[r], f)) =>
            Is400Naming(response[r], FirstInvalid(params[r]))

C3_Witness ==
    \E r \in Requests :
        /\ Done(r)
        /\ ~Violates(params[r], "JobLevel")
        /\ ~Violates(params[r], "WorkEnv")
        /\ Violates(params[r], "Workload")
        /\ Violates(params[r], "PhysicalActivityHours")
        /\ Is400Naming(response[r], "Workload")

\* The stage of the endpoint's state machine a handler position belongs to:
\* Idle 0, Validating 1, Normalizing 2, Inferring 3, Responding 4.
Stage(position) ==
    CASE position \in {"idle", "queued"} -> 0
      [] position = "validating" -> 1
      [] position = "normalizing" -> 2
      [] position \in {"transforming", "predicting", "returning"} -> 3
      [] position = "done" -> 4

\* C4: a request goes through Validating, Normalizing, Inferring, Responding
\* in that order, a step staying in its stage, entering the next one or
\* ending at Responding; a request answered 400 by validation has had neither
\* transform nor predict invoked; predict is invoked only after transform
\* was invoked and returned for that request.
C4_StagesInOrder ==
    /\ [][\A r \in Requests :
            LET before == Stage(pc[r])
                after  == Stage(pc'[r])
            IN  \/ after = before
                \/ after = before + 1
                \/ before >= 1 /\ after = 4]_vars
    /\ [](\A r \in Requests :
            /\ caught[r].handler = "validate" =>
                  /\ response[r].status_code = 400
                  /\ transformCalls[r] = 0
                  /\ predictCalls[r] = 0
            /\ response[r].status_code = 400 => caught[r].handler = "validate"
            /\ Stage(pc[r]) <= 2 => transformCalls[r] = 0 /\ predictCalls[r] = 0
            /\ predictCalls[r] > 0 =>
                  /\ transformCalls[r] > 0
                  /\ caught[r].handler # "transform"
                  /\ processed_data[r] # NoRow)

C4_Witness ==
    \E r1, r2 \in Requests :
        /\ Done(r1) /\ response[r1].status_code = 400 /\ transformCalls[r1] = 0
        /\ Done(r2) /\ predictCalls[r2] = 1 /\ transformCalls[r2] = 1

\* C5: an exception after validation ends its request with 500 and the fixed
\* detail of the place that caught it, whatever the exception says: transform
\* gives the transform detail and predict is not invoked, predict gives the
\* prediction detail, any other gives the internal-server detail; transform
\* and predict are invoked at most once per request, an answered request stays
\* answered, and the 400 of validation leaves the handler as a 400.
C5_FaultsAreTerminal500 ==
    /\ [](\A r \in Requests :
            /\ transformCalls[r] <= 1
            /\ predictCalls[r] <= 1
            /\ caught[r].handler # "" => Done(r)
            /\ caught[r].handler = "transform" =>
                  /\ Is500(response[r], TransformDetail)
                  /\ predictCalls[r] = 0
            /\ caught[r].handler = "predict" => Is500(response[r], PredictDetail)
            /\ caught[r].handler = "outer" => Is500(response[r], InternalDetail)
            /\ caught[r].handler = "validate" => response[r].status_code = 400
            /\ caught[r].handler \in {"transform", "predict", "outer"} =>
                  response[r].body.detail # caught[r].exc.detail)
    /\ [][\A r \in Requests :
            Done(r) =>
                /\ pc'[r] = "done"
                /\ response'[r] = response[r]
                /\ transformCalls'[r] = transformCalls[r]
                /\ predictCalls'[r] = predictCalls[r]]_vars

C5_Witness ==
    \E r1, r2 \in Requests :
        /\ caught[r1].handler = "transform" /\ Is500(response[r1], TransformDetail)
        /\ caught[r2].handler = "validate" /\ response[r2].status_code = 400

\* C6: two answered requests with the same field values have the same
\* response, whatever was served before or in between, and no step of a
\* serving process changes the loaded model or preprocessor.
C6_SameInputSameOutput ==
    /\ [](\A r1, r2 \in Requests :
            Done(r1) /\ Done(r2) /\ params[r1] = params[r2] =>
                response[r1] = response[r2])
    /\ [][process = "serving" =>
            model' = model /\ preprocessor' = preprocessor]_vars

C6_Witness ==
    \E r1, r2 \in Requests :
        /\ r1 # r2
        /\ Done(r1) /\ Done(r2)
        /\ params[r1] = params[r2]
        /\ Is200(response[r1])
        /\ response[r1] = response[r2]

\* The handler of r has been started or is waiting to be started, and has
\* not answered.
InFlight(r) == pc[r] \notin {"idle", "done"}

\* The next step of the handler of r.
Step(r) ==
    \/ Dispatch(r)
    \/ Validate(r)
    \/ Normalize(r)
    \/ Transform(r)
    \/ Predict(r)
    \/ Return(r)

\* C7: while a request is in its preprocessor.transform or model.predict
\* call, every other request in flight can take its next step.
C7_NoRequestBlocksAnother ==
    \A r1, r2 \in Requests :
        /\ r1 # r2
        /\ pc[r1] \in {"transforming", "predicting"}
        /\ InFlight(r2)
        => ENABLED Step(r2)

\* C8: GET / or POST /predict_job_satisfaction is handled only by a process
\* in which both artifacts were loaded; a process whose load failed has
\* served nothing and stays failed.
C8_NoServiceWithoutArtifacts ==
    /\ [](LET served == root # NoResponse \/ \E r \in Requests : pc[r] # "idle"
          IN  /\ served => process = "serving" /\ model.loaded /\ preprocessor.loaded
              /\ process = "failed" => ~served
              /\ process = "serving" => model.loaded /\ preprocessor.loaded)
    /\ [][process = "failed" => process' = "failed"]_vars

C8_Witness == process = "failed" /\ model.loaded /\ ~preprocessor.loaded

RatingTexts == <<"1", "2", "3", "4", "5">>

\* C9: in the record handed to preprocessor.transform exactly the nine
\* columns Gender, MaritalStatus, Dept, EmpType, CommuteMode, EduLevel,
\* WorkEnv, haveOT, WLB hold strings, WorkEnv and WLB the decimal text of the
\* validated integers; Workload and Stress are the integers of the request.
C9_NineStringColumns ==
    \A r \in Requests :
        Handed(r) =>
            /\ {c \in Columns : input_data[r][c].dtype = "object"} =
                  {"Gender", "MaritalStatus", "Dept", "EmpType", "CommuteMode",
                   "EduLevel", "WorkEnv", "haveOT", "WLB"}
            /\ input_data[r].WorkEnv.s = RatingTexts[params[r].WorkEnv.n]
            /\ input_data[r].WLB.s = RatingTexts[params[r].WLB.n]
            /\ input_data[r].Workload = params[r].Workload
            /\ input_data[r].Workload.dtype = "int64"
            /\ input_data[r].Stress = params[r].Stress
            /\ input_data[r].Stress.dtype = "int64"

C9_Witness ==
    \E r \in Requests :
        /\ Handed(r)
        /\ params[r].WorkEnv.n = 5 /\ input_data[r].WorkEnv.s = "5"
        /\ params[r].WLB.n = 1 /\ input_data[r].WLB.s = "1"
        /\ input_data[r].Workload.n = 4

\* C10: in every record handed to preprocessor.transform JobLevel is the
\* number 0, whichever allowed value the request gave, the request not having
\* failed for it; two requests that differ only in JobLevel hand the
\* preprocessor the same record.
C10_JobLevelBecomesZero ==
    /\ \A r \in Requests :
          Handed(r) =>
              /\ params[r].JobLevel.s \in valid_job_levels
              /\ input_data[r].JobLevel.dtype # "object"
              /\ input_data[r].JobLevel.s = ""
              /\ input_data[r].JobLevel.n = 0
              /\ caught[r].handler # "validate"
    /\ \A r1, r2 \in Requests :
          /\ Handed(r1) /\ Handed(r2)
          /\ \A c \in Columns \ {"JobLevel"} : params[r1][c] = params[r2][c]
          => input_data[r1] = input_data[r2]

C10_Witness ==
    \E r1, r2 \in Requests :
        /\ Handed(r1) /\ Handed(r2)
        /\ params[r1].JobLevel.s = "Intern/Fresher"
        /\ params[r2].JobLevel.s = "Lead"
        /\ \A c \in Columns \ {"JobLevel"} : params[r1][c] = params[r2][c]
        /\ input_data[r1] = input_data[r2]

====
